---- MODULE Spec2Model ----
(***************************************************************************)
(* A model of the retail cleaning pipeline of src/retail_pipeline.py.      *)
(*                                                                         *)
(* A DataFrame is a record [cols, rows]: cols is the sequence of column    *)
(* labels, rows the sequence of rows in table order.  A row is             *)
(* [idx, cells]: idx is the pandas index label (the position of the row in *)
(* the file that was read; dropna, drop_duplicates and boolean selection   *)
(* keep it), cells the values, aligned with cols.                          *)
(*                                                                         *)
(* Text (headers, CSV fields, string values) is a sequence of one-character*)
(* strings, so that strip, lower, title and replace are computed character *)
(* by character.                                                           *)
(***************************************************************************)
EXTENDS Integers, Sequences, FiniteSets, TLC

VARIABLES
    pc,          \* position of the run
    headers,     \* header row of the input file
    raw,         \* data rows of the input file: sequences of text fields
    inputOk,     \* whether pd.read_csv can read the input file
    remove,      \* the remove_outliers argument
    dirExists,   \* whether output_dir exists
    dirExisted,  \* whether output_dir existed when the run started
    df,          \* the working table
    prev,        \* the table the last stage was applied to
    files,       \* CSV files in output_dir written by the run: name -> table
    wrote,       \* names of the CSV files the last step wrote, in order
    figs         \* figures saved under output_dir/figures

vars == <<pc, headers, raw, inputOk, remove, dirExists, dirExisted,
          df, prev, files, wrote, figs>>

----------------------------------------------------------------------------
(* Bounds of the model *)

\* most data rows of an enumerated input file
MaxRows == 3

\* most rows of a table handed directly to a single stage
MaxUnitRows == 4

----------------------------------------------------------------------------
(* Text *)

LowerAlpha ==
    <<"a", "b", "c", "d", "e", "f", "g", "h", "i", "j", "k", "l", "m",
      "n", "o", "p", "q", "r", "s", "t", "u", "v", "w", "x", "y", "z">>

UpperAlpha ==
    <<"A", "B", "C", "D", "E", "F", "G", "H", "I", "J", "K", "L", "M",
      "N", "O", "P", "Q", "R", "S", "T", "U", "V", "W", "X", "Y", "Z">>

Digits == <<"0", "1", "2", "3", "4", "5", "6", "7", "8", "9">>

Whitespace == {" ", "\t"}

\* position of c in the sequence s, 0 when absent
IndexOf(c, s) ==
    IF \E i \in DOMAIN s : s[i] = c
    THEN CHOOSE i \in DOMAIN s : s[i] = c
    ELSE 0

IsUpper(c) == IndexOf(c, UpperAlpha) > 0
IsLower(c) == IndexOf(c, LowerAlpha) > 0
IsCased(c) == IsUpper(c) \/ IsLower(c)
IsDigit(c) == IndexOf(c, Digits) > 0

LowerChar(c) == IF IsUpper(c) THEN LowerAlpha[IndexOf(c, UpperAlpha)] ELSE c
UpperChar(c) == IF IsLower(c) THEN UpperAlpha[IndexOf(c, LowerAlpha)] ELSE c

\* str.lower()
Lower(s) == [i \in DOMAIN s |-> LowerChar(s[i])]

\* str.title(): a cased letter is upper-cased when it follows an uncased
\* character (or starts the text) and lower-cased otherwise
Title(s) ==
    [i \in DOMAIN s |->
        IF i = 1 \/ ~IsCased(s[i - 1]) THEN UpperChar(s[i]) ELSE LowerChar(s[i])]

\* str.replace(a, b) for one-character a and b
Replace(s, a, b) == [i \in DOMAIN s |-> IF s[i] = a THEN b ELSE s[i]]

RECURSIVE LStrip(_)
LStrip(s) ==
    IF s # <<>> /\ Head(s) \in Whitespace THEN LStrip(Tail(s)) ELSE s

RECURSIVE RStrip(_)
RStrip(s) ==
    IF s # <<>> /\ s[Len(s)] \in Whitespace
    THEN RStrip(SubSeq(s, 1, Len(s) - 1))
    ELSE s

\* str.strip()
Strip(s) == RStrip(LStrip(s))

\* lexicographic order of texts by character (a proper prefix comes first)
CharRank(c) ==
    IF IsDigit(c) THEN IndexOf(c, Digits)
    ELSE IF IsUpper(c) THEN 20 + IndexOf(c, UpperAlpha)
    ELSE IF IsLower(c) THEN 60 + IndexOf(c, LowerAlpha)
    ELSE 0

RECURSIVE TextLess(_, _)
TextLess(s, t) ==
    IF t = <<>> THEN FALSE
    ELSE IF s = <<>> THEN TRUE
    ELSE IF Head(s) = Head(t) THEN TextLess(Tail(s), Tail(t))
    ELSE CharRank(Head(s)) < CharRank(Head(t))

\* value of a text made of decimal digits only
RECURSIVE DigitsValue(_)
DigitsValue(s) ==
    IF s = <<>> THEN 0
    ELSE 10 * DigitsValue(SubSeq(s, 1, Len(s) - 1)) + (IndexOf(s[Len(s)], Digits) - 1)

AllDigits(s) == s # <<>> /\ \A i \in DOMAIN s : IsDigit(s[i])

\* whether a text is an integer literal: an optional sign, then digits
IsIntText(s) ==
    \/ AllDigits(s)
    \/ Len(s) > 1 /\ s[1] = "-" /\ AllDigits(Tail(s))

IntValue(s) == IF s[1] = "-" THEN 0 - DigitsValue(Tail(s)) ELSE DigitsValue(s)

\* str(n) for an integer n
RECURSIVE NatText(_)
NatText(n) ==
    IF n < 10 THEN <<Digits[n + 1]>>
    ELSE NatText(n \div 10) \o <<Digits[(n % 10) + 1]>>

IntText(n) == IF n < 0 THEN <<"-">> \o NatText(0 - n) ELSE NatText(n)

\* str(x) for a float x holding the integer n
FloatText(n) == IntText(n) \o <<".", "0">>

----------------------------------------------------------------------------
(* Values *)

\* Every value of a table is a record of one shape, so that any two values
\* can be compared: k is the kind, s the text of a string, n the number (a
\* date is the number yyyymmdd, a boolean 0 or 1) and d the denominator of a
\* number that is not whole.
NA == [k |-> "na", s |-> <<>>, n |-> 0, d |-> 1]
Str(s) == [k |-> "str", s |-> s, n |-> 0, d |-> 1]
Num(n) == [k |-> "num", s |-> <<>>, n |-> n, d |-> 1]
Frac(n, d) == [k |-> "num", s |-> <<>>, n |-> n, d |-> d]
DateVal(n) == [k |-> "date", s |-> <<>>, n |-> n, d |-> 1]
Bool(b) == [k |-> "bool", s |-> <<>>, n |-> IF b THEN 1 ELSE 0, d |-> 1]

IsNA(v) == v.k = "na"

\* pandas' default markers of a missing CSV field (the ones the inputs use)
NaValues ==
    { <<>>, <<"N", "A">>, <<"n", "a", "n">>, <<"N", "a", "N">>,
      <<"N", "U", "L", "L">>, <<"n", "u", "l", "l">> }

DaysIn(y, m) ==
    IF m \in {4, 6, 9, 11} THEN 30
    ELSE IF m # 2 THEN 31
    ELSE IF (y % 4 = 0 /\ y % 100 # 0) \/ y % 400 = 0 THEN 29
    ELSE 28

\* whether a text is a calendar date written yyyy-mm-dd
IsDateText(s) ==
    /\ Len(s) = 10
    /\ s[5] = "-" /\ s[8] = "-"
    /\ \A i \in {1, 2, 3, 4, 6, 7, 9, 10} : IsDigit(s[i])
    /\ LET y == DigitsValue(SubSeq(s, 1, 4))
           m == DigitsValue(SubSeq(s, 6, 7))
           dd == DigitsValue(SubSeq(s, 9, 10))
       IN  m \in 1..12 /\ dd >= 1 /\ dd <= DaysIn(y, m)

DateNumber(s) ==
    DigitsValue(SubSeq(s, 1, 4)) * 10000
        + DigitsValue(SubSeq(s, 6, 7)) * 100
        + DigitsValue(SubSeq(s, 9, 10))

\* pd.to_datetime(..., errors="coerce") of one value: a text that is no date
\* becomes missing; a number counts nanoseconds from 1970-01-01
to_datetime(v) ==
    CASE v.k = "str" -> IF IsDateText(v.s) THEN DateVal(DateNumber(v.s)) ELSE NA
      [] v.k = "num" -> IF v.n >= 0 THEN DateVal(19700101) ELSE DateVal(19691231)
      [] v.k = "date" -> v
      [] OTHER -> NA

\* pd.to_numeric(..., errors="coerce") of one value
to_numeric(v) ==
    CASE v.k = "str" -> IF IsIntText(v.s) THEN Num(IntValue(v.s)) ELSE NA
      [] v.k = "num" -> v
      [] v.k = "bool" -> Num(v.n)
      [] OTHER -> NA

----------------------------------------------------------------------------
(* Tables *)

EmptyTable == [cols |-> <<>>, rows |-> <<>>]

Positions(T, name) == {i \in DOMAIN T.cols : T.cols[i] = name}
HasCol(T, name) == Positions(T, name) # {}
IsDup(T, name) == Cardinality(Positions(T, name)) > 1

\* the position of a column whose label occurs once
Col(T, name) == CHOOSE i \in DOMAIN T.cols : T.cols[i] = name

\* df[name] = F(df[name]), value by value
MapCol(T, name, F(_)) ==
    [T EXCEPT !.rows =
        [r \in DOMAIN T.rows |->
            [T.rows[r] EXCEPT !.cells =
                [i \in DOMAIN T.cols |->
                    IF T.cols[i] = name THEN F(T.rows[r].cells[i])
                    ELSE T.rows[r].cells[i]]]]]

\* df[name] = vals, vals[r] being the value for the r-th row: an existing
\* column is overwritten in place, a new one is appended as the last column
SetCol(T, name, vals) ==
    IF HasCol(T, name)
    THEN [T EXCEPT !.rows =
            [r \in DOMAIN T.rows |->
                [T.rows[r] EXCEPT !.cells =
                    [i \in DOMAIN T.cols |->
                        IF T.cols[i] = name THEN vals[r]
                        ELSE T.rows[r].cells[i]]]]]
    ELSE [cols |-> Append(T.cols, name),
          rows |-> [r \in DOMAIN T.rows |->
                      [T.rows[r] EXCEPT !.cells = Append(T.rows[r].cells, vals[r])]]]

\* df[keep], keep a predicate of the row: the rows kept stay in order and
\* keep their index labels
SelectRows(rows, Keep(_)) == SelectSeq(rows, Keep)

----------------------------------------------------------------------------
(* Canonical column names *)

col_invoice_no == <<"i", "n", "v", "o", "i", "c", "e", "_", "n", "o">>
col_invoice_date == <<"i", "n", "v", "o", "i", "c", "e", "_", "d", "a", "t", "e">>
col_stock_code == <<"s", "t", "o", "c", "k", "_", "c", "o", "d", "e">>
col_description == <<"d", "e", "s", "c", "r", "i", "p", "t", "i", "o", "n">>
col_quantity == <<"q", "u", "a", "n", "t", "i", "t", "y">>
col_unit_price == <<"u", "n", "i", "t", "_", "p", "r", "i", "c", "e">>
col_customer_id == <<"c", "u", "s", "t", "o", "m", "e", "r", "_", "i", "d">>
col_country == <<"c", "o", "u", "n", "t", "r", "y">>
col_total_value == <<"t", "o", "t", "a", "l", "_", "v", "a", "l", "u", "e">>
col_year == <<"y", "e", "a", "r">>
col_month == <<"m", "o", "n", "t", "h">>
col_is_outlier_quantity ==
    <<"i", "s", "_", "o", "u", "t", "l", "i", "e", "r", "_">> \o col_quantity
col_is_outlier_unit_price ==
    <<"i", "s", "_", "o", "u", "t", "l", "i", "e", "r", "_">> \o col_unit_price
col_metric == <<"m", "e", "t", "r", "i", "c">>
col_value == <<"v", "a", "l", "u", "e">>

----------------------------------------------------------------------------
(* pd.read_csv *)

\* One column of the file as pandas types it: a field that is a missing
\* marker is missing; the column is numeric when every other field is a
\* number, and text otherwise.
InferColumn(texts) ==
    LET present == {i \in DOMAIN texts : texts[i] \notin NaValues}
        numeric == \A i \in present : IsIntText(texts[i])
    IN  [i \in DOMAIN texts |->
            IF i \notin present THEN NA
            ELSE IF numeric THEN Num(IntValue(texts[i]))
            ELSE Str(texts[i])]

\* the table read from a file with header row hdr and data rows rws: the
\* index is 0, 1, 2, ... in file order
read_csv(hdr, rws) ==
    LET column(j) == InferColumn([r \in DOMAIN rws |-> rws[r][j]])
    IN  [cols |-> hdr,
         rows |-> [r \in DOMAIN rws |->
                     [idx |-> r - 1,
                      cells |-> [j \in DOMAIN hdr |-> column(j)[r]]]]]

----------------------------------------------------------------------------
(* Schema Normalizer *)

\* c.strip().lower().replace(" ", "_").replace("-", "_")
NormalizeHeader(c) == Replace(Replace(Lower(Strip(c)), " ", "_"), "-", "_")

\* the candidate lists of standardize_column_names, in the order scanned
AliasTable ==
  <<[target |-> col_invoice_no,
     candidates |-> << <<"i", "n", "v", "o", "i", "c", "e", "n", "o">>,
                       <<"i", "n", "v", "o", "i", "c", "e", "_", "n", "o">>,
                       <<"i", "n", "v", "o", "i", "c", "e", "_", "n", "u", "m", "b", "e", "r">> >>],
    [target |-> col_invoice_date,
     candidates |-> << <<"i", "n", "v", "o", "i", "c", "e", "d", "a", "t", "e">>,
                       <<"i", "n", "v", "o", "i", "c", "e", "_", "d", "a", "t", "e">>,
                       <<"d", "a", "t", "e">> >>],
    [target |-> col_stock_code,
     candidates |-> << <<"s", "t", "o", "c", "k", "c", "o", "d", "e">>,
                       <<"s", "t", "o", "c", "k", "_", "c", "o", "d", "e">>,
                       <<"p", "r", "o", "d", "u", "c", "t", "_", "c", "o", "d", "e">> >>],
    [target |-> col_description,
     candidates |-> << <<"d", "e", "s", "c", "r", "i", "p", "t", "i", "o", "n">>,
                       <<"p", "r", "o", "d", "u", "c", "t", "_", "d", "e", "s", "c", "r", "i", "p", "t", "i", "o", "n">>,
                       <<"i", "t", "e", "m", "_", "d", "e", "s", "c", "r", "i", "p", "t", "i", "o", "n">> >>],
    [target |-> col_quantity,
     candidates |-> << <<"q", "u", "a", "n", "t", "i", "t", "y">>,
                       <<"q", "t", "y">> >>],
    [target |-> col_unit_price,
     candidates |-> << <<"u", "n", "i", "t", "p", "r", "i", "c", "e">>,
                       <<"u", "n", "i", "t", "_", "p", "r", "i", "c", "e">>,
                       <<"p", "r", "i", "c", "e">> >>],
    [target |-> col_customer_id,
     candidates |-> << <<"c", "u", "s", "t", "o", "m", "e", "r", "i", "d">>,
                       <<"c", "u", "s", "t", "o", "m", "e", "r", "_", "i", "d">>,
                       <<"c", "u", "s", "t", "_", "i", "d">> >>],
    [target |-> col_country,
     candidates |-> << <<"c", "o", "u", "n", "t", "r", "y">>,
                       <<"m", "a", "r", "k", "e", "t">> >>] >>

\* cols_lower = {c.lower(): c for c in df.columns}: a later column
\* replaces an earlier one under the same key
ColsLower(cols) ==
    [k \in {Lower(cols[i]) : i \in DOMAIN cols} |->
        LET at == {i \in DOMAIN cols : Lower(cols[i]) = k}
        IN  cols[CHOOSE i \in at : \A j \in at : j <= i]]

\* the first candidate of the list that is a key of cols_lower, 0 if none:
\* the scan of one "for candidate in [...]: if ...: break" loop
FirstCandidate(candidates, lower) ==
    LET hit == {i \in DOMAIN candidates : candidates[i] \in DOMAIN lower}
    IN  IF hit = {} THEN 0 ELSE CHOOSE i \in hit : \A j \in hit : i <= j

\* rename_map, as the set of <<old label, canonical name>> it holds
RenameMap(cols) ==
    LET lower == ColsLower(cols)
    IN  { <<lower[AliasTable[t].candidates[FirstCandidate(AliasTable[t].candidates, lower)]],
            AliasTable[t].target>> :
            t \in {u \in DOMAIN AliasTable :
                      FirstCandidate(AliasTable[u].candidates, lower) > 0} }

\* df.rename(columns=rename_map): every column bearing an old label is renamed
RenameColumns(cols, map) ==
    [i \in DOMAIN cols |->
        IF \E m \in map : m[1] = cols[i]
        THEN (CHOOSE m \in map : m[1] = cols[i])[2]
        ELSE cols[i]]

standardize_column_names(T) ==
    LET normalized == [i \in DOMAIN T.cols |-> NormalizeHeader(T.cols[i])]
    IN  [T EXCEPT !.cols = RenameColumns(normalized, RenameMap(normalized))]

----------------------------------------------------------------------------
(* Type Coercer *)

\* pd.to_datetime and pd.to_numeric take a Series: df[name] is a DataFrame
\* when two columns bear the label, and the call raises
convert_dtypes_raises(T) ==
    \E name \in {col_invoice_date, col_quantity, col_unit_price} : IsDup(T, name)

convert_dtypes(T) ==
    LET T1 == IF HasCol(T, col_invoice_date) THEN MapCol(T, col_invoice_date, to_datetime) ELSE T
        T2 == IF HasCol(T1, col_quantity) THEN MapCol(T1, col_quantity, to_numeric) ELSE T1
    IN  IF HasCol(T2, col_unit_price) THEN MapCol(T2, col_unit_price, to_numeric) ELSE T2

----------------------------------------------------------------------------
(* Validity Filter *)

\* cols_to_check, as the set of column positions dropna examines
ColsToCheck(T) == Positions(T, col_invoice_no) \cup Positions(T, col_invoice_date)

\* a filter that examines invoice_no alone
drop_invoices_without_number(T) ==
    LET check == Positions(T, col_invoice_no)
        Valid(row) == \A i \in check : ~IsNA(row.cells[i])
    IN  IF check # {} THEN [T EXCEPT !.rows = SelectRows(T.rows, Valid)] ELSE T

drop_invalid_invoices(T) ==
    LET check == ColsToCheck(T)
        Valid(row) == \A i \in check : ~IsNA(row.cells[i])
    IN  IF check # {} THEN [T EXCEPT !.rows = SelectRows(T.rows, Valid)] ELSE T

----------------------------------------------------------------------------
(* Missing-Value Handler *)

\* whether a column holds floats: a numeric column with a missing value
IsFloatColumn(T, i) == \E r \in DOMAIN T.rows : IsNA(T.rows[r].cells[i])

\* str(v), as astype(str) applies it to each value of an object or numeric
\* column: a missing value becomes the text "nan"
AsStr(v, float) ==
    CASE v.k = "str" -> v
      [] v.k = "na" -> Str(<<"n", "a", "n">>)
      [] v.k = "num" -> Str(IF float THEN FloatText(v.n) ELSE IntText(v.n))
      [] v.k = "bool" -> Str(IF v.n = 1 THEN <<"T", "r", "u", "e">>
                                         ELSE <<"F", "a", "l", "s", "e">>)
      [] OTHER -> Str(IntText(v.n))

StripStr(v) == IF v.k = "str" THEN Str(Strip(v.s)) ELSE v

\* df[name].astype(str), column by column
AsTypeStr(T, name) ==
    [T EXCEPT !.rows =
        [r \in DOMAIN T.rows |->
            [T.rows[r] EXCEPT !.cells =
                [i \in DOMAIN T.cols |->
                    IF T.cols[i] = name
                    THEN AsStr(T.rows[r].cells[i], IsFloatColumn(T, i))
                    ELSE T.rows[r].cells[i]]]]]

Unknown == Str(<<"U", "n", "k", "n", "o", "w", "n">>)
FillUnknown(v) == IF IsNA(v) THEN Unknown ELSE v

\* float(v) of one value of an object column
CanFloat(v) == v.k # "str" \/ IsIntText(Strip(v.s))
AsFloat(v) == IF v.k = "str" THEN Num(IntValue(Strip(v.s))) ELSE v

\* .str exists on a Series only, and astype("float64") raises on a text that
\* is no number
handle_missing_values_raises(T) ==
    \/ IsDup(T, col_description)
    \/ \E i \in Positions(T, col_customer_id) :
           \E r \in DOMAIN T.rows : ~CanFloat(T.rows[r].cells[i])

handle_missing_values(T) ==
    LET T1 == IF HasCol(T, col_description)
              THEN MapCol(AsTypeStr(MapCol(T, col_description, FillUnknown),
                                    col_description),
                          col_description, StripStr)
              ELSE T
    IN  IF HasCol(T1, col_customer_id) THEN MapCol(T1, col_customer_id, AsFloat) ELSE T1

----------------------------------------------------------------------------
(* Categorical Normalizer *)

\* country_map
CountryMap(s) ==
    CASE s = <<"U", "k">> -> <<"U", "n", "i", "t", "e", "d", " ", "K", "i", "n", "g", "d", "o", "m">>
      [] s = <<"U", "n", "i", "t", "e", "d", " ", "K", "i", "n", "g", "d", "o", "m">> -> s
      [] s = <<"E", "i", "r", "e">> -> <<"I", "r", "e", "l", "a", "n", "d">>
      [] OTHER -> s

TitleStr(v) == IF v.k = "str" THEN Str(Title(v.s)) ELSE v
ReplaceCountry(v) == IF v.k = "str" THEN Str(CountryMap(v.s)) ELSE v

normalize_categorical_raises(T) ==
    IsDup(T, col_description) \/ IsDup(T, col_country)

normalize_categorical(T) ==
    LET T1 == IF HasCol(T, col_description)
              THEN MapCol(AsTypeStr(T, col_description), col_description, StripStr)
              ELSE T
    IN  IF HasCol(T1, col_country)
        THEN MapCol(MapCol(MapCol(AsTypeStr(T1, col_country), col_country, StripStr),
                           col_country, TitleStr),
                    col_country, ReplaceCountry)
        ELSE T1

----------------------------------------------------------------------------
(* Derived-Column Calculator *)

\* the product of two numeric values: missing when either is
Product(a, b) == IF IsNA(a) \/ IsNA(b) THEN NA ELSE Num(a.n * b.n)

\* .dt.year and .dt.month of a date
YearOf(v) == IF IsNA(v) THEN NA ELSE Num(v.n \div 10000)
MonthOf(v) == IF IsNA(v) THEN NA ELSE Num((v.n \div 100) % 100)

add_derived_columns(T) ==
    LET T1 == IF HasCol(T, col_quantity) /\ HasCol(T, col_unit_price)
              THEN SetCol(T, col_total_value,
                          [r \in DOMAIN T.rows |->
                              Product(T.rows[r].cells[Col(T, col_quantity)],
                                      T.rows[r].cells[Col(T, col_unit_price)])])
              ELSE T
        T2 == IF HasCol(T1, col_invoice_date)
              THEN SetCol(T1, col_year,
                          [r \in DOMAIN T1.rows |->
                              YearOf(T1.rows[r].cells[Col(T1, col_invoice_date)])])
              ELSE T1
    IN  IF HasCol(T2, col_invoice_date)
        THEN SetCol(T2, col_month,
                    [r \in DOMAIN T2.rows |->
                        MonthOf(T2.rows[r].cells[Col(T2, col_invoice_date)])])
        ELSE T2

----------------------------------------------------------------------------
(* Duplicate Detector *)

\* df[df.duplicated(keep=False)]: the rows equal, value for value, to
\* another row of the table
Duplicates(T) ==
    LET seen(r) == \E q \in DOMAIN T.rows : q # r /\ T.rows[q].cells = T.rows[r].cells
    IN  [T EXCEPT !.rows =
            SelectSeq([r \in DOMAIN T.rows |-> [pos |-> r, row |-> T.rows[r]]],
                      LAMBDA x : seen(x.pos))]

\* df.drop_duplicates(): the first row of each group of equal rows
FirstOccurrences(T) ==
    LET first(r) == \A q \in 1..(r - 1) : T.rows[q].cells # T.rows[r].cells
    IN  [T EXCEPT !.rows =
            SelectSeq([r \in DOMAIN T.rows |-> [pos |-> r, row |-> T.rows[r]]],
                      LAMBDA x : first(x.pos))]

Unwrap(T) == [T EXCEPT !.rows = [r \in DOMAIN T.rows |-> T.rows[r].row]]

\* df[df.duplicated()]: the rows equal to an earlier row, the first
\* occurrence left out
LaterOccurrences(T) ==
    LET later(r) == \E q \in 1..(r - 1) : T.rows[q].cells = T.rows[r].cells
    IN  [T EXCEPT !.rows =
            SelectSeq([r \in DOMAIN T.rows |-> [pos |-> r, row |-> T.rows[r]]],
                      LAMBDA x : later(x.pos))]

duplicates_after_first(T) == Unwrap(LaterOccurrences(T))

duplicates_logged(T) == Unwrap(Duplicates(T))

\* a deduplication that drops a row only when it equals the row before it
drop_adjacent_duplicates(T) ==
    LET keep(r) == r = 1 \/ T.rows[r - 1].cells # T.rows[r].cells
    IN  Unwrap([T EXCEPT !.rows =
            SelectSeq([r \in DOMAIN T.rows |-> [pos |-> r, row |-> T.rows[r]]],
                      LAMBDA x : keep(x.pos))])

drop_duplicates(T) == Unwrap(FirstOccurrences(T))

----------------------------------------------------------------------------
(* Outlier Detector *)

\* df[name].dropna(): the values present, each with its index label
DropNA(T, name) ==
    LET i == Col(T, name)
        present == SelectSeq(T.rows, LAMBDA row : ~IsNA(row.cells[i]))
    IN  [r \in DOMAIN present |-> [idx |-> present[r].idx, v |-> present[r].cells[i].n]]

\* the values of a series in ascending order
SortedValues(series) ==
    LET rank(p) == 1 + Cardinality({q \in DOMAIN series :
                        \/ series[q].v < series[p].v
                        \/ series[q].v = series[p].v /\ q < p})
    IN  [k \in DOMAIN series |-> series[CHOOSE p \in DOMAIN series : rank(p) = k].v]

\* four times the quantile with interpolation="lower": the sorted value at
\* the whole part of the position
QuantileLower4(series, q4) ==
    4 * SortedValues(series)[(((Len(series) - 1) * q4) \div 4) + 1]

\* four times series.quantile(q4 / 4) of a series that is not empty: the
\* value at position (n - 1) * q4 / 4 of the sorted values, interpolated
\* linearly between the two neighbours when the position is not whole
Quantile4(series, q4) ==
    LET sorted == SortedValues(series)
        pos4 == (Len(sorted) - 1) * q4
        lo == (pos4 \div 4) + 1
        part == pos4 % 4
    IN  IF part = 0 THEN 4 * sorted[lo]
        ELSE 4 * sorted[lo] + part * (sorted[lo + 1] - sorted[lo])

\* eight times the lower and upper bound: q1 - 1.5 * iqr and q3 + 1.5 * iqr
Lower8(series) ==
    2 * Quantile4(series, 1) - 3 * (Quantile4(series, 3) - Quantile4(series, 1))

Upper8(series) ==
    2 * Quantile4(series, 3) + 3 * (Quantile4(series, 3) - Quantile4(series, 1))

\* the mask of detect_outliers_iqr, as the set of index labels it is true
\* at: the quantiles of an empty series are NaN and no comparison holds
detect_outliers_iqr(series) ==
    IF series = <<>> THEN {}
    ELSE LET lower8 == Lower8(series)
             upper8 == Upper8(series)
         IN  { series[p].idx : p \in
                 { q \in DOMAIN series :
                     8 * series[q].v < lower8 \/ 8 * series[q].v > upper8 } }

\* full_mask: False at every index label of df, then the mask where it has one
FullMask(T, name) ==
    LET mask == detect_outliers_iqr(DropNA(T, name))
    IN  [r \in DOMAIN T.rows |-> Bool(T.rows[r].idx \in mask)]

\* df with the flag columns attached
FlagOutliers(T) ==
    LET T1 == IF HasCol(T, col_quantity)
              THEN SetCol(T, col_is_outlier_quantity, FullMask(T, col_quantity))
              ELSE T
    IN  IF HasCol(T1, col_unit_price)
        THEN SetCol(T1, col_is_outlier_unit_price, FullMask(T1, col_unit_price))
        ELSE T1

\* outlier_cols
OutlierCols(T) ==
    (IF HasCol(T, col_quantity) THEN {col_is_outlier_quantity} ELSE {})
        \cup (IF HasCol(T, col_unit_price) THEN {col_is_outlier_unit_price} ELSE {})

\* df[outlier_cols].any(axis=1) of one row of the flagged table F
AnyFlag(F, flags, row) ==
    \E i \in DOMAIN F.cols : F.cols[i] \in flags /\ row.cells[i].n = 1

\* outliers_df
outliers_logged(T) ==
    LET F == FlagOutliers(T)
        flags == OutlierCols(T)
    IN  [F EXCEPT !.rows = SelectSeq(F.rows, LAMBDA row : AnyFlag(F, flags, row))]

\* a detector that flags and never removes
flag_outliers_only(T, rm) == FlagOutliers(T)

\* the table flag_and_optionally_remove_outliers returns
flag_and_optionally_remove_outliers(T, rm) ==
    LET F == FlagOutliers(T)
        flags == OutlierCols(T)
    IN  IF flags # {} /\ rm
        THEN [F EXCEPT !.rows = SelectSeq(F.rows, LAMBDA row : ~AnyFlag(F, flags, row))]
        ELSE F

----------------------------------------------------------------------------
(* Summary Builder *)

\* .head(10)
TopN == 10

\* sum of a column over a set of row positions, missing values skipped
RECURSIVE SumOver(_, _, _)
SumOver(T, i, at) ==
    IF at = {} THEN 0
    ELSE LET r == CHOOSE x \in at : TRUE
         IN  (IF IsNA(T.rows[r].cells[i]) THEN 0 ELSE T.rows[r].cells[i].n)
                 + SumOver(T, i, at \ {r})

\* order of group keys: numbers and texts ascending, a missing key last
ValueLess(a, b) ==
    IF IsNA(a) THEN FALSE
    ELSE IF IsNA(b) THEN TRUE
    ELSE IF a.k = "str" /\ b.k = "str" THEN TextLess(a.s, b.s)
    ELSE IF a.k = "str" THEN FALSE
    ELSE IF b.k = "str" THEN TRUE
    ELSE a.n < b.n

\* the members of a finite set in the strict total order Less
SortSet(S, Less(_, _)) ==
    LET rank(x) == 1 + Cardinality({y \in S : Less(y, x)})
    IN  [k \in 1..Cardinality(S) |-> CHOOSE x \in S : rank(x) = k]

\* monthly_revenue: total_value summed by (year, month), a missing year or
\* month being a group of its own, in ascending order of (year, month)
monthly_revenue(T) ==
    LET y == Col(T, col_year)
        m == Col(T, col_month)
        tv == Col(T, col_total_value)
        keys == { <<T.rows[r].cells[y], T.rows[r].cells[m]>> : r \in DOMAIN T.rows }
        less(a, b) == ValueLess(a[1], b[1]) \/ (a[1] = b[1] /\ ValueLess(a[2], b[2]))
        sorted == SortSet(keys, less)
        members(key) == { r \in DOMAIN T.rows :
                            <<T.rows[r].cells[y], T.rows[r].cells[m]>> = key }
    IN  [cols |-> <<col_year, col_month, col_total_value>>,
         rows |-> [g \in DOMAIN sorted |->
                     [idx |-> g - 1,
                      cells |-> <<sorted[g][1], sorted[g][2],
                                  Num(SumOver(T, tv, members(sorted[g])))>>]]]

\* top_products: total_value summed by description, the groups in ascending
\* order of description, then sorted by descending sum (groups of equal sum
\* keep their order), the first TopN of them
top_products(T) ==
    LET ds == Col(T, col_description)
        tv == Col(T, col_total_value)
        keys == { T.rows[r].cells[ds] : r \in { q \in DOMAIN T.rows :
                                                  ~IsNA(T.rows[q].cells[ds]) } }
        groups == SortSet(keys, ValueLess)
        total(g) == SumOver(T, tv, { r \in DOMAIN T.rows : T.rows[r].cells[ds] = groups[g] })
        before(g, h) == total(g) > total(h) \/ (total(g) = total(h) /\ g < h)
        order == SortSet(DOMAIN groups, before)
        n == IF Len(order) < TopN THEN Len(order) ELSE TopN
    IN  [cols |-> <<col_description, col_total_value>>,
         rows |-> [k \in 1..n |->
                     [idx |-> order[k] - 1,
                      cells |-> <<groups[order[k]], Num(total(order[k]))>>]]]

\* unique_customers: the number of distinct customer_id values present
unique_customers(T) ==
    IF HasCol(T, col_customer_id)
    THEN Num(Cardinality({ T.rows[r].cells[Col(T, col_customer_id)] :
                             r \in { q \in DOMAIN T.rows :
                                       ~IsNA(T.rows[q].cells[Col(T, col_customer_id)]) } }))
    ELSE NA

\* avg_order_value: the mean over the invoices of their summed total_value,
\* as the fraction (sum of the sums) / (number of invoices)
avg_order_value(T) ==
    IF HasCol(T, col_invoice_no) /\ HasCol(T, col_total_value)
    THEN LET inv == Col(T, col_invoice_no)
             present == { r \in DOMAIN T.rows : ~IsNA(T.rows[r].cells[inv]) }
             invoices == { T.rows[r].cells[inv] : r \in present }
         IN  IF invoices = {} THEN NA
             ELSE Frac(SumOver(T, Col(T, col_total_value), present),
                       Cardinality(invoices))
    ELSE NA

metrics_df(T) ==
    [cols |-> <<col_metric, col_value>>,
     rows |-> <<[idx |-> 0,
                 cells |-> <<Str(<<"u", "n", "i", "q", "u", "e", "_",
                                   "c", "u", "s", "t", "o", "m", "e", "r", "s">>),
                             unique_customers(T)>>],
                [idx |-> 1,
                 cells |-> <<Str(<<"a", "v", "e", "r", "a", "g", "e", "_", "o", "r", "d", "e", "r",
                                   "_", "v", "a", "l", "u", "e">>),
                             avg_order_value(T)>>]>>]

HasRevenue(T) == HasCol(T, col_total_value) /\ HasCol(T, col_invoice_date)
HasTopProducts(T) == HasCol(T, col_total_value) /\ HasCol(T, col_description)

\* the CSV files create_summary_tables writes, in the order written
SummaryWrites(T) ==
    (IF HasRevenue(T) THEN <<"revenue_by_month.csv">> ELSE <<>>)
        \o (IF HasTopProducts(T) THEN <<"top10_products_by_sales.csv">> ELSE <<>>)
        \o <<"overall_metrics.csv">>

SummaryTable(T, name) ==
    CASE name = "revenue_by_month.csv" -> monthly_revenue(T)
      [] name = "top10_products_by_sales.csv" -> top_products(T)
      [] OTHER -> metrics_df(T)

\* the figures saved: a line chart and a bar chart of the summary tables
\* that are not empty, and the histogram of quantity
SummaryFigures(T) ==
    (IF HasRevenue(T) /\ monthly_revenue(T).rows # <<>>
        THEN {"monthly_revenue.png"} ELSE {})
    \cup (IF HasTopProducts(T) /\ top_products(T).rows # <<>>
        THEN {"top10_products_by_sales.png"} ELSE {})
    \cup (IF HasCol(T, col_quantity) THEN {"quantity_distribution.png"} ELSE {})

----------------------------------------------------------------------------
(* Input files *)

\* Each schema is a header row and, per column, the texts a field of that
\* column is drawn from.  The headers are spellings the Schema Normalizer
\* accepts; "" is an empty CSV field.
Schemas ==
  { [headers |-> << <<"I", "n", "v", "o", "i", "c", "e", "N", "o">>,
                    <<"I", "n", "v", "o", "i", "c", "e", "D", "a", "t", "e">> >>,
     fields |-> << { <<>>, <<"A", "1">>, <<"A", "2">> },
                   { <<>>, <<"2", "0", "1", "0", "-", "1", "2", "-", "0", "1">>,
                     <<"s", "o", "o", "n">> } >>],
    [headers |-> << <<"Q", "t", "y">>, <<" ", "P", "r", "i", "c", "e">>,
                    <<"D", "e", "s", "c", "r", "i", "p", "t", "i", "o", "n">> >>,
     fields |-> << { <<"2">>, <<"a", "b", "c">> },
                   { <<"3">> },
                   { <<>>, <<" ", "m", "u", "g", " ">>, <<"m", "u", "g">> } >>],
    [headers |-> << <<"i", "n", "v", "o", "i", "c", "e", "_", "n", "u", "m", "b", "e", "r">>,
                    <<"C", "o", "u", "n", "t", "r", "y">>,
                    <<"C", "u", "s", "t", "o", "m", "e", "r", "I", "D">> >>,
     fields |-> << { <<"A", "1">> },
                   { <<>>, <<" ", "U", "K">>, <<"e", "i", "r", "e">> },
                   { <<"1", "7">>, <<"C", "1", "7">> } >>],
    [headers |-> << <<"I", "n", "v", "o", "i", "c", "e", "D", "a", "t", "e">>,
                    <<"I", "n", "v", "o", "i", "c", "e", " ", "D", "a", "t", "e">> >>,
     fields |-> << { <<>>, <<"2", "0", "1", "0", "-", "1", "2", "-", "0", "1">> },
                   { <<"2", "0", "1", "0", "-", "1", "2", "-", "0", "1">> } >>],
    [headers |-> << <<"I", "n", "v", "o", "i", "c", "e", "-", "N", "o">>,
                    <<"D", "a", "t", "e">>,
                    <<"q", "u", "a", "n", "t", "i", "t", "y">>,
                    <<"U", "n", "i", "t", "P", "r", "i", "c", "e">>,
                    <<"d", "e", "s", "c", "r", "i", "p", "t", "i", "o", "n">> >>,
     fields |-> << { <<"A", "1">>, <<>> },
                   { <<"2", "0", "1", "0", "-", "1", "2", "-", "0", "1">>,
                     <<"2", "0", "1", "1", "-", "0", "1", "-", "0", "4">> },
                   { <<"2">> },
                   { <<"3">> },
                   { <<"m", "u", "g">> } >>] }

\* the tuples that take their j-th member from the j-th set
RECURSIVE Tuples(_)
Tuples(sets) ==
    IF sets = <<>> THEN {<<>>}
    ELSE { <<x>> \o t : x \in Head(sets), t \in Tuples(Tail(sets)) }

\* the data rows a schema allows
SchemaRows(sc) == Tuples(sc.fields)

\* whether hdr and rws are the header row and the data rows of a file of
\* some schema with at most MaxRows data rows
IsSchemaFile(hdr, rws) ==
    \E sc \in Schemas : \E k \in 0..MaxRows :
        hdr = sc.headers /\ rws \in [1..k -> SchemaRows(sc)]

InvoiceQuantityHeaders ==
    << <<"I", "n", "v", "o", "i", "c", "e", "N", "o">>,
       <<"Q", "u", "a", "n", "t", "i", "t", "y">> >>

\* nine invoices with the quantities 1, 2, 2, 3, 3, 3, 4, 4, 100
QuartileExample ==
    [headers |-> InvoiceQuantityHeaders,
     raw |-> << << <<"A", "1">>, <<"1">> >>, << <<"A", "2">>, <<"2">> >>,
                << <<"A", "3">>, <<"2">> >>, << <<"A", "4">>, <<"3">> >>,
                << <<"A", "5">>, <<"3">> >>, << <<"A", "6">>, <<"3">> >>,
                << <<"A", "7">>, <<"4">> >>, << <<"A", "8">>, <<"4">> >>,
                << <<"A", "9">>, <<"1", "0", "0">> >> >>]

\* four invoices of quantity 1 and one of quantity 100 entered twice
RepeatedOutlierExample ==
    [headers |-> InvoiceQuantityHeaders,
     raw |-> << << <<"A", "1">>, <<"1">> >>, << <<"A", "2">>, <<"1">> >>,
                << <<"A", "3">>, <<"1">> >>, << <<"A", "4">>, <<"1">> >>,
                << <<"A", "5">>, <<"1", "0", "0">> >>,
                << <<"A", "5">>, <<"1", "0", "0">> >> >>]

\* the input files of the model: the files of the schemas and the two examples
IsInputFile(hdr, rws) ==
    \/ IsSchemaFile(hdr, rws)
    \/ hdr = QuartileExample.headers /\ rws = QuartileExample.raw
    \/ hdr = RepeatedOutlierExample.headers /\ rws = RepeatedOutlierExample.raw

----------------------------------------------------------------------------
(* clean_and_analyze *)

NoFiles == [name \in {} |-> EmptyTable]

\* df.to_csv(os.path.join(output_dir, name), index=False)
WriteFile(fs, name, T) == [n \in (DOMAIN fs) \cup {name} |-> IF n = name THEN T ELSE fs[n]]

Init ==
    /\ pc = "start"
    /\ inputOk \in BOOLEAN
    /\ IsInputFile(headers, raw)
    /\ inputOk \/ raw = <<>>
    /\ remove \in BOOLEAN
    /\ dirExisted \in BOOLEAN
    /\ dirExists = dirExisted
    /\ df = EmptyTable
    /\ prev = EmptyTable
    /\ files = NoFiles
    /\ wrote = <<>>
    /\ figs = {}

\* os.makedirs(output_dir, exist_ok=True)
MakeDirs ==
    /\ pc = "start"
    /\ pc' = "dir"
    /\ dirExists' = TRUE
    /\ wrote' = <<>>
    /\ UNCHANGED <<headers, raw, inputOk, remove, dirExisted, df, prev, files, figs>>

\* df = pd.read_csv(input_path, ...): raises when the file cannot be read
ReadCsv ==
    /\ pc = "dir"
    /\ IF inputOk
       THEN pc' = "read" /\ df' = read_csv(headers, raw)
       ELSE pc' = "aborted" /\ df' = df
    /\ wrote' = <<>>
    /\ UNCHANGED <<headers, raw, inputOk, remove, dirExists, dirExisted, prev, files, figs>>

\* one stage that writes no file: df = stage(df), or the exception it raises
\* ends the run
Stage(from, to, raises, result) ==
    /\ pc = from
    /\ prev' = df
    /\ IF raises
       THEN pc' = "aborted" /\ df' = df
       ELSE pc' = to /\ df' = result
    /\ wrote' = <<>>
    /\ UNCHANGED <<headers, raw, inputOk, remove, dirExists, dirExisted, files, figs>>

StandardizeColumnNames ==
    Stage("read", "standardized", FALSE, standardize_column_names(df))

ConvertDtypes ==
    Stage("standardized", "converted", convert_dtypes_raises(df), convert_dtypes(df))

DropInvalidInvoices ==
    Stage("converted", "filtered", FALSE, drop_invalid_invoices(df))

HandleMissingValues ==
    Stage("filtered", "filled", handle_missing_values_raises(df), handle_missing_values(df))

NormalizeCategorical ==
    Stage("filled", "normalized", normalize_categorical_raises(df), normalize_categorical(df))

AddDerivedColumns ==
    Stage("normalized", "derived", FALSE, add_derived_columns(df))

\* deduplicate_and_log(df, output_dir) applied to the working table
deduplicate_and_log ==
    /\ prev' = df
    /\ df' = drop_duplicates(df)
    /\ IF duplicates_logged(df).rows # <<>>
       THEN /\ files' = WriteFile(files, "duplicates_logged.csv", duplicates_logged(df))
            /\ wrote' = <<"duplicates_logged.csv">>
       ELSE /\ files' = files
            /\ wrote' = <<>>
    /\ UNCHANGED <<headers, raw, inputOk, remove, dirExists, dirExisted, figs>>

\* flag_and_optionally_remove_outliers(df, remove, output_dir) applied to the
\* working table
flag_and_remove ==
    /\ prev' = df
    /\ df' = flag_and_optionally_remove_outliers(df, remove)
    /\ IF OutlierCols(df) # {} /\ outliers_logged(df).rows # <<>>
       THEN /\ files' = WriteFile(files, "outliers_logged.csv", outliers_logged(df))
            /\ wrote' = <<"outliers_logged.csv">>
       ELSE /\ files' = files
            /\ wrote' = <<>>
    /\ UNCHANGED <<headers, raw, inputOk, remove, dirExists, dirExisted, figs>>

DeduplicateAndLog ==
    /\ pc = "derived"
    /\ pc' = "deduped"
    /\ deduplicate_and_log

FlagAndOptionallyRemoveOutliers ==
    /\ pc = "deduped"
    /\ pc' = "flagged"
    /\ flag_and_remove

\* df.to_csv(cleaned_path, index=False)
WriteCleaned ==
    /\ pc = "flagged"
    /\ pc' = "cleaned"
    /\ files' = WriteFile(files, "retail_cleaned.csv", df)
    /\ wrote' = <<"retail_cleaned.csv">>
    /\ UNCHANGED <<headers, raw, inputOk, remove, dirExists, dirExisted, df, prev, figs>>

RECURSIVE WriteSummaries(_, _, _)
WriteSummaries(fs, names, T) ==
    IF names = <<>> THEN fs
    ELSE WriteSummaries(WriteFile(fs, Head(names), SummaryTable(T, Head(names))),
                        Tail(names), T)

\* create_summary_tables(df, output_dir)
CreateSummaryTables ==
    /\ pc = "cleaned"
    /\ pc' = "done"
    /\ files' = WriteSummaries(files, SummaryWrites(df), df)
    /\ wrote' = SummaryWrites(df)
    /\ figs' = SummaryFigures(df)
    /\ UNCHANGED <<headers, raw, inputOk, remove, dirExists, dirExisted, df, prev>>

Next ==
    \/ MakeDirs
    \/ ReadCsv
    \/ StandardizeColumnNames
    \/ ConvertDtypes
    \/ DropInvalidInvoices
    \/ HandleMissingValues
    \/ NormalizeCategorical
    \/ AddDerivedColumns
    \/ DeduplicateAndLog
    \/ FlagAndOptionallyRemoveOutliers
    \/ WriteCleaned
    \/ CreateSummaryTables

Spec == Init /\ [][Next]_vars

----------------------------------------------------------------------------
(* Single stages applied to a table *)

\* The Duplicate Detector and the Outlier Detector take any table.  Here a
\* table of typed values is handed to one of them directly: the Duplicate
\* Detector is applied, and applied again to its own output; the Outlier
\* Detector is applied once.

UnitSchemas ==
  { [cols |-> <<col_quantity>>,
     values |-> << {NA, Num(1), Num(2), Num(3), Num(100)} >>],
    [cols |-> <<col_quantity, col_unit_price>>,
     values |-> << {NA, Num(1), Num(100)}, {Num(1), Num(100)} >>],
    [cols |-> <<col_description>>,
     values |-> << {Str(<<"m", "u", "g">>), NA} >>] }

MakeTable(cols, cellss) ==
    [cols |-> cols,
     rows |-> [r \in DOMAIN cellss |-> [idx |-> r - 1, cells |-> cellss[r]]]]

\* the quantities 1, 2, 2, 3, 3, 3, 4, 4, 100
ExampleQuantities == <<1, 2, 2, 3, 3, 3, 4, 4, 100>>

ExampleTable ==
    MakeTable(<<col_quantity>>,
              [r \in DOMAIN ExampleQuantities |-> <<Num(ExampleQuantities[r])>>])

\* a table of a schema with at most MaxUnitRows rows, or the example
IsUnitTable(T) ==
    \/ \E sc \in UnitSchemas : \E k \in 0..MaxUnitRows :
          \E cellss \in [1..k -> Tuples(sc.values)] : T = MakeTable(sc.cols, cellss)
    \/ T = ExampleTable

InitUnit ==
    /\ pc = "unit"
    /\ IsUnitTable(df)
    /\ remove \in BOOLEAN
    /\ headers = <<>>
    /\ raw = <<>>
    /\ inputOk = TRUE
    /\ dirExisted = TRUE
    /\ dirExists = TRUE
    /\ prev = EmptyTable
    /\ files = NoFiles
    /\ wrote = <<>>
    /\ figs = {}

UnitDeduplicate ==
    /\ pc \in {"unit", "dedup1"}
    /\ pc' = IF pc = "unit" THEN "dedup1" ELSE "dedup2"
    /\ deduplicate_and_log

UnitFlagOutliers ==
    /\ pc = "unit"
    /\ pc' = "flagged1"
    /\ flag_and_remove

NextUnit ==
    \/ UnitDeduplicate
    \/ UnitFlagOutliers

SpecUnit == InitUnit /\ [][NextUnit]_vars

----------------------------------------------------------------------------
(* Properties *)

HasFile(name) == name \in DOMAIN files

\* the rows of a file of the run, none when it was not written
FileRows(name) == IF HasFile(name) THEN files[name].rows ELSE <<>>

InTable(rows, i) == \E r \in DOMAIN rows : rows[r].idx = i
RowAt(rows, i) == rows[CHOOSE r \in DOMAIN rows : rows[r].idx = i]
IdxSeq(rows) == [r \in DOMAIN rows |-> rows[r].idx]
FirstCells(row, n) == SubSeq(row.cells, 1, n)

AfterFilter ==
    pc \in {"filtered", "filled", "normalized", "derived", "deduped",
            "flagged", "cleaned", "done"}

InvoiceColumns(T) ==
    { i \in DOMAIN T.cols : T.cols[i] \in {col_invoice_no, col_invoice_date} }

InvoicesPresent(T) ==
    \A r \in DOMAIN T.rows : \A i \in InvoiceColumns(T) : T.rows[r].cells[i].k # "na"

\* C1: From the Validity Filter on, every row of the working table, and
\* every row of the cleaned output, has a value in invoice_no and in
\* invoice_date, for whichever of the two columns the table has; when it has
\* neither, the Validity Filter returns the table it was given.
C1_ValidInvoices ==
    /\ AfterFilter => InvoicesPresent(df)
    /\ HasFile("retail_cleaned.csv") => InvoicesPresent(files["retail_cleaned.csv"])
    /\ pc = "filtered" /\ InvoiceColumns(prev) = {} => df = prev

\* a finished run whose Validity Filter dropped a row and kept another
C1_Witness ==
    /\ pc = "done"
    /\ InvoiceColumns(df) # {}
    /\ ~HasFile("duplicates_logged.csv")
    /\ ~HasFile("outliers_logged.csv")
    /\ FileRows("retail_cleaned.csv") # <<>>
    /\ Len(FileRows("retail_cleaned.csv")) < Len(raw)

\* whether the i-th data row of the input file passes the Validity Filter
PassesFilter(i) ==
    InTable(drop_invalid_invoices(
                convert_dtypes(standardize_column_names(read_csv(headers, raw)))).rows,
            i - 1)

\* the rows of a file whose first values are the values c
RowsLike(name, c) ==
    { r \in DOMAIN FileRows(name) : FirstCells(FileRows(name)[r], Len(c)) = c }

BothLogged(i, j) ==
    /\ InTable(FileRows("duplicates_logged.csv"), i - 1)
    /\ InTable(FileRows("duplicates_logged.csv"), j - 1)

\* the values of the i-th data row as the duplicate log holds them
LoggedCells(i) == RowAt(FileRows("duplicates_logged.csv"), i - 1).cells

\* C2 as stated: in a finished run, any two identical rows of the input file
\* are both in the duplicate log and exactly one row of their content is in
\* the cleaned output.
C2_Original ==
    pc = "done" =>
        \A i, j \in DOMAIN raw :
            i < j /\ raw[i] = raw[j] =>
                /\ BothLogged(i, j)
                /\ Cardinality(RowsLike("retail_cleaned.csv", LoggedCells(i))) = 1

\* C2 amended: in a finished run, any two identical rows of the input file
\* that pass the Validity Filter are both in the duplicate log, and exactly
\* one row of their content is in the cleaned output, unless the removal flag
\* is set and the row was flagged an outlier: then none is, and the row is in
\* the outlier log.
C2_IdenticalValidRows ==
    pc = "done" =>
        \A i, j \in DOMAIN raw :
            i < j /\ raw[i] = raw[j] /\ PassesFilter(i) =>
                /\ BothLogged(i, j)
                /\ \/ Cardinality(RowsLike("retail_cleaned.csv", LoggedCells(i))) = 1
                   \/ /\ remove
                      /\ RowsLike("retail_cleaned.csv", LoggedCells(i)) = {}
                      /\ RowsLike("outliers_logged.csv", LoggedCells(i)) # {}

\* a finished run on a file with two identical rows that pass the filter,
\* one of which is in the cleaned output
C2_Witness ==
    /\ pc = "done"
    /\ \E i, j \in DOMAIN raw :
          /\ i < j /\ raw[i] = raw[j] /\ PassesFilter(i)
          /\ BothLogged(i, j)
          /\ Cardinality(RowsLike("retail_cleaned.csv", LoggedCells(i))) = 1

UnparseableNumber(v) == v.k = "str" /\ ~IsIntText(v.s)
UnparseableDate(v) == v.k = "str" /\ ~IsDateText(v.s)

\* whether the stage just applied kept every row and made missing every
\* value of the named column that the test says does not parse
CoercedToMissing(name, Unparseable(_)) ==
    /\ Len(df.rows) = Len(prev.rows)
    /\ \A r \in DOMAIN prev.rows : \A i \in DOMAIN prev.cols :
          prev.cols[i] = name /\ Unparseable(prev.rows[r].cells[i])
              => df.rows[r].cells[i].k = "na"

\* C3 as stated: a value of invoice_date, quantity, unit_price or customer_id
\* that does not parse becomes missing and its row stays in the table, and the
\* run is never ended by such a value: a run ends early only when the file
\* cannot be read or two columns bear one label.
C3_Original ==
    /\ pc = "converted" =>
          /\ CoercedToMissing(col_invoice_date, UnparseableDate)
          /\ CoercedToMissing(col_quantity, UnparseableNumber)
          /\ CoercedToMissing(col_unit_price, UnparseableNumber)
    /\ pc = "filled" => CoercedToMissing(col_customer_id, UnparseableNumber)
    /\ pc = "aborted" =>
          \/ ~inputOk
          \/ \E i, j \in DOMAIN prev.cols : i # j /\ prev.cols[i] = prev.cols[j]

\* the values present in a column of the table the Outlier Detector was given
PresentRows(name) ==
    { r \in DOMAIN prev.rows : prev.rows[r].cells[Col(prev, name)].k = "num" }

ValueAt(name, r) == prev.rows[r].cells[Col(prev, name)].n

\* the k-th smallest (k = 0 for the smallest) of the values present: the
\* value with at most k values below it and more than k values not above it
OrderStatistic(name, k) ==
    CHOOSE x \in { ValueAt(name, r) : r \in PresentRows(name) } :
        /\ Cardinality({ r \in PresentRows(name) : ValueAt(name, r) < x }) <= k
        /\ Cardinality({ r \in PresentRows(name) : ValueAt(name, r) <= x }) > k

\* four times the quartile q4 / 4 by linear interpolation
Quartile4(name, q4) ==
    LET h4 == (Cardinality(PresentRows(name)) - 1) * q4
        lo == h4 \div 4
        fr == h4 % 4
    IN  IF fr = 0 THEN 4 * OrderStatistic(name, lo)
        ELSE (4 - fr) * OrderStatistic(name, lo) + fr * OrderStatistic(name, lo + 1)

\* eight times Q1 - 1.5 IQR and eight times Q3 + 1.5 IQR
LowerBound8(name) ==
    2 * Quartile4(name, 1) - 3 * (Quartile4(name, 3) - Quartile4(name, 1))

UpperBound8(name) ==
    2 * Quartile4(name, 3) + 3 * (Quartile4(name, 3) - Quartile4(name, 1))

\* the row with index label i as the Outlier Detector tagged it: in the
\* table returned, or in the outlier log when it was removed
TaggedRow(i) ==
    IF InTable(df.rows, i) THEN RowAt(df.rows, i)
    ELSE RowAt(FileRows("outliers_logged.csv"), i)

FlagOf(flag, i) == TaggedRow(i).cells[Col(df, flag)]

\* whether the flag column holds true for exactly the rows whose value is
\* present and lies strictly below the lower or strictly above the upper bound
FlagsAreIqrRule(name, flag) ==
    HasCol(prev, name) =>
        LET present == PresentRows(name)
            lower8 == LowerBound8(name)
            upper8 == UpperBound8(name)
        IN  \A r \in DOMAIN prev.rows :
                FlagOf(flag, prev.rows[r].idx) =
                    Bool(/\ r \in present
                         /\ \/ 8 * ValueAt(name, r) < lower8
                            \/ 8 * ValueAt(name, r) > upper8)

\* C4: the Outlier Detector flags, in is_outlier_quantity and in
\* is_outlier_unit_price, exactly the rows whose value is present and lies
\* strictly outside [Q1 - 1.5 IQR, Q3 + 1.5 IQR], Q1 and Q3 being the
\* quartiles by linear interpolation of the values present; for the
\* quantities 1, 2, 2, 3, 3, 3, 4, 4, 100 it finds Q1 = 2, Q3 = 4, the
\* bounds -1 and 7, and flags the row of 100 alone.
C4_IqrFlags ==
    pc = "flagged1" =>
        /\ FlagsAreIqrRule(col_quantity, col_is_outlier_quantity)
        /\ FlagsAreIqrRule(col_unit_price, col_is_outlier_unit_price)
        /\ prev = ExampleTable =>
              /\ Quantile4(DropNA(prev, col_quantity), 1) = 4 * 2
              /\ Quantile4(DropNA(prev, col_quantity), 3) = 4 * 4
              /\ Lower8(DropNA(prev, col_quantity)) = 8 * (0 - 1)
              /\ Upper8(DropNA(prev, col_quantity)) = 8 * 7
              /\ { i \in 0..8 : FlagOf(col_is_outlier_quantity, i).n = 1 } = {8}

\* the Outlier Detector has run on the nine example quantities and logged
\* one row
C4_Witness ==
    /\ pc = "flagged1"
    /\ prev = ExampleTable
    /\ Len(FileRows("outliers_logged.csv")) = 1

\* whether a row of the returned table or of the log has a flag set
IsFlagged(row) ==
    \E i \in DOMAIN df.cols :
        /\ df.cols[i] \in {col_is_outlier_quantity, col_is_outlier_unit_price}
        /\ row.cells[i].n = 1

\* whether the rows are rows of the table the detector was given, with the
\* values it had there
FromInput(rows) ==
    \A r \in DOMAIN rows :
        /\ InTable(prev.rows, rows[r].idx)
        /\ FirstCells(rows[r], Len(prev.cols)) = RowAt(prev.rows, rows[r].idx).cells

\* C5: the outlier log holds exactly the rows flagged in some eligible
\* column, as they were before any removal; with the removal flag set the
\* table returned holds exactly the rows not flagged, in their order, and
\* without it the table returned holds the rows of the input in their order,
\* flags attached; a table with no eligible column is returned as it is and
\* nothing is logged.
C5_LogAndRemoval ==
    pc = "flagged1" =>
        LET log == FileRows("outliers_logged.csv")
        IN  /\ \A r \in DOMAIN log : IsFlagged(log[r])
            /\ FromInput(log) /\ FromInput(df.rows)
            /\ IdxSeq(log) = SelectSeq(IdxSeq(prev.rows),
                                       LAMBDA i : IsFlagged(TaggedRow(i)))
            /\ remove =>
                  /\ \A r \in DOMAIN df.rows : ~IsFlagged(df.rows[r])
                  /\ IdxSeq(df.rows) = SelectSeq(IdxSeq(prev.rows),
                                                 LAMBDA i : ~InTable(log, i))
            /\ ~remove => IdxSeq(df.rows) = IdxSeq(prev.rows)
            /\ ~HasCol(prev, col_quantity) /\ ~HasCol(prev, col_unit_price) =>
                  df = prev /\ ~HasFile("outliers_logged.csv")

\* the Outlier Detector, told to remove, has logged a row and returned others
C5_Witness ==
    /\ pc = "flagged1"
    /\ remove
    /\ HasFile("outliers_logged.csv")
    /\ df.rows # <<>>
    /\ Len(df.rows) + Len(FileRows("outliers_logged.csv")) = Len(prev.rows)

\* C6: applied to its own output, the Duplicate Detector returns the table
\* it was given, finds no two equal rows in it and writes no duplicate log.
C6_DedupIdempotent ==
    pc = "dedup2" =>
        /\ df = prev
        /\ \A r, q \in DOMAIN prev.rows : r # q => prev.rows[r].cells # prev.rows[q].cells
        /\ wrote = <<>>

\* the Duplicate Detector has been applied twice, the first time to a table
\* with duplicates
C6_Witness ==
    /\ pc = "dedup2"
    /\ HasFile("duplicates_logged.csv")
    /\ df.rows # <<>>

\* the position of the header that normalizes to the earliest alias of the
\* t-th canonical name that any header normalizes to; 0 when none does
EarliestAliasColumn(t) ==
    LET normalized == [i \in DOMAIN headers |-> NormalizeHeader(headers[i])]
        aliases == AliasTable[t].candidates
        matched == { a \in DOMAIN aliases : \E i \in DOMAIN headers : normalized[i] = aliases[a] }
    IN  IF matched = {} THEN 0
        ELSE CHOOSE i \in DOMAIN headers :
                normalized[i] = aliases[CHOOSE a \in matched : \A b \in matched : a <= b]

\* C7 as stated: after standardize_column_names at most one column bears
\* each canonical name, and it is the column whose normalized header is the
\* earliest alias of that name present.
C7_Original ==
    pc = "standardized" =>
        \A t \in DOMAIN AliasTable :
            /\ Cardinality({ i \in DOMAIN df.cols : df.cols[i] = AliasTable[t].target }) <= 1
            /\ EarliestAliasColumn(t) # 0 =>
                  df.cols[EarliestAliasColumn(t)] = AliasTable[t].target

\* C8 as stated: every duplicate log, outlier log and summary CSV the run
\* has written holds at least one row.
C8_Original ==
    \A name \in DOMAIN files :
        name # "retail_cleaned.csv" => files[name].rows # <<>>

\* C9 as stated: a run that ended before the cleaned CSV was written has
\* created no output directory and written no file.
C9_Original ==
    pc = "aborted" => dirExists = dirExisted /\ DOMAIN files = {}

\* whether every row of the rows given whose country field is empty in the
\* input file has a missing country
MissingCountryKept(T) ==
    \A r \in DOMAIN T.rows : \A j \in DOMAIN headers :
        T.cols[j] = col_country /\ raw[T.rows[r].idx + 1][j] \in NaValues
            => T.rows[r].cells[j].k = "na"

\* C10 as stated: a country that is missing after the Validity Filter is
\* missing after handle_missing_values, after normalize_categorical and in
\* the cleaned output.
C10_Original ==
    /\ AfterFilter => MissingCountryKept(df)
    /\ HasFile("retail_cleaned.csv") => MissingCountryKept(files["retail_cleaned.csv"])

====
